---- MODULE Spec2Model ----
(***************************************************************************)
(* Model of src/app.py: the pharma distribution planner.                   *)
(*                                                                         *)
(*   solve_optimization(df)     builds the linear programme from the rows  *)
(*                              of df, hands it to the CBC solver and      *)
(*                              turns the solver's answer into a result.   *)
(*   explain_infeasibility(df)  the heuristic diagnoser run on every       *)
(*                              non-Optimal status.                        *)
(*                                                                         *)
(* Quantities of the input table are whole numbers.  Values the solver     *)
(* assigns to decision variables are held in millionths (Micro), so that   *)
(* the extraction threshold 1e-6 is the integer 1 and rounding to two      *)
(* decimals is a division by 10000.                                        *)
(***************************************************************************)
EXTENDS Integers, Sequences, FiniteSets, TLC

VARIABLES df, pc, exception, lp, status, assignment, objective_value, result

vars == <<df, pc, exception, lp, status, assignment, objective_value, result>>

---------------------------------------------------------------------------
(* Bounds of the explored inputs.                                          *)

\* Longest input table explored by Spec (solve_optimization).
MaxRows == 2

\* Longest input table explored by SpecDiag (explain_infeasibility alone).
MaxDiagRows == 2

\* One unit of quantity in millionths: 1e-6 (src/app.py:220) is 1.
Micro == 1000000

---------------------------------------------------------------------------
(* Generic helpers.                                                        *)

Range(s) == {s[n] : n \in DOMAIN s}

RECURSIVE SumSet(_, _)
\* Sum of f[k] over the keys k of the set S (python sum(d.values())).
SumSet(f, S) ==
  IF S = {} THEN 0
  ELSE LET k == CHOOSE z \in S : TRUE IN f[k] + SumSet(f, S \ {k})

RECURSIVE SumSeq(_)
SumSeq(s) == IF s = <<>> THEN 0 ELSE Head(s) + SumSeq(Tail(s))

RECURSIVE Flatten(_)
\* Concatenation of a sequence of sequences.
Flatten(ss) == IF ss = <<>> THEN <<>> ELSE Head(ss) \o Flatten(Tail(ss))

RECURSIVE Unique(_)
\* pandas Series.unique(): the distinct values in order of first appearance.
Unique(s) ==
  IF s = <<>> THEN <<>>
  ELSE LET r == Unique(SubSeq(s, 1, Len(s) - 1))
           v == s[Len(s)]
       IN IF v \in Range(r) THEN r ELSE Append(r, v)

RECURSIVE Sorted(_)
\* python sorted() of a set of integers, ascending.
Sorted(S) ==
  IF S = {} THEN <<>>
  ELSE LET m == CHOOSE z \in S : \A w \in S : z <= w
       IN <<m>> \o Sorted(S \ {m})

\* A python dict comprehension {ks[n]: vs[n] for n in rows}: ks and vs are
\* the key and value of each contributing row (functions over the same row
\* numbers); a later row overwrites an earlier one with the same key.
DictOf(ks, vs) ==
  [k \in Range(ks) |->
     vs[CHOOSE n \in DOMAIN ks :
          /\ ks[n] = k
          /\ \A m \in DOMAIN ks : ks[m] = k => m <= n]]

\* dict.get(k, 0)
GetOrZero(d, k) == IF k \in DOMAIN d THEN d[k] ELSE 0

---------------------------------------------------------------------------
(* Index sets and parameter dictionaries derived from the table.           *)

plants(t)  == Unique([n \in DOMAIN t |-> t[n].plant])
centers(t) == Unique([n \in DOMAIN t |-> t[n].center])
drugs(t)   == Unique([n \in DOMAIN t |-> t[n].drug])
weeks(t)   == Sorted({t[n].week : n \in DOMAIN t})

base_cost(t) ==
  DictOf([n \in DOMAIN t |-> <<t[n].plant, t[n].center>>],
         [n \in DOMAIN t |-> t[n].base_transport_cost])
cold_flag(t) ==
  DictOf([n \in DOMAIN t |-> t[n].drug],
         [n \in DOMAIN t |-> t[n].needs_ultra_cold])
holding(t) ==
  DictOf([n \in DOMAIN t |-> <<t[n].center, t[n].drug>>],
         [n \in DOMAIN t |-> t[n].holding_cost])
penalty(t) ==
  DictOf([n \in DOMAIN t |-> t[n].drug],
         [n \in DOMAIN t |-> t[n].shortage_penalty])
waste_cost(t) ==
  DictOf([n \in DOMAIN t |-> t[n].drug],
         [n \in DOMAIN t |-> t[n].waste_cost])
demand(t) ==
  DictOf([n \in DOMAIN t |-> <<t[n].center, t[n].drug, t[n].week>>],
         [n \in DOMAIN t |-> t[n].demand])
prod_cap(t) ==
  DictOf([n \in DOMAIN t |-> <<t[n].plant, t[n].week>>],
         [n \in DOMAIN t |-> t[n].plant_week_capacity])
storage_cap(t) ==
  DictOf([n \in DOMAIN t |-> t[n].center],
         [n \in DOMAIN t |-> t[n].center_storage_capacity])
\* Variant: the initial inventory read from the rows of every week.
init_inventory_AllWeeks(t) ==
  DictOf([n \in DOMAIN t |-> <<t[n].center, t[n].drug>>],
         [n \in DOMAIN t |-> t[n].initial_inventory])

\* ... for r in df.itertuples() if r.week == weeks[0]
init_inventory(t) ==
  LET first == {n \in DOMAIN t : t[n].week = weeks(t)[1]}
  IN DictOf([n \in first |-> <<t[n].center, t[n].drug>>],
            [n \in first |-> t[n].initial_inventory])

---------------------------------------------------------------------------
(* explain_infeasibility                                                   *)

total_demand(t) == SumSet(demand(t), DOMAIN demand(t))
total_prod(t)   == SumSet(prod_cap(t), DOMAIN prod_cap(t))

\* total_prod < 0.95 * total_demand.  For whole-number inputs the float
\* product 0.95 * total_demand never exceeds the exact one and lies within
\* 1e-9 of it, so the comparison with the integer total_prod is the exact
\* one: 20 * total_prod < 19 * total_demand.
ProductionCheck(t) == 20 * total_prod(t) < 19 * total_demand(t)

\* sum(init_inventory.get((j, k), 0) for k in drugs)
init_total(t, j) ==
  LET inv == init_inventory(t)
      ds  == drugs(t)
  IN SumSeq([n \in DOMAIN ds |-> GetOrZero(inv, <<j, ds[n]>>)])

\* Variant: a center offends as soon as its inventory reaches its capacity.
StorageOffendsAtCapacity(t, j) == init_total(t, j) >= storage_cap(t)[j]

\* if init_total_j > cap_j
StorageOffends(t, j) == init_total(t, j) > storage_cap(t)[j]

\* Variant: the scan keeps the last offending center instead of the first.
LastOffender(t) ==
  LET hits == {n \in DOMAIN centers(t) : init_total(t, centers(t)[n]) > storage_cap(t)[centers(t)[n]]}
  IN IF hits = {} THEN 0 ELSE CHOOSE n \in hits : \A z \in hits : z <= n

\* for j in centers: ... return on the first center that offends.
\* The position in centers(t) of that center, 0 when none offends.
FirstOffender(t) ==
  LET cs  == centers(t)
      bad == {n \in DOMAIN cs : StorageOffends(t, cs[n])}
  IN IF bad = {} THEN 0 ELSE CHOOSE n \in bad : \A m \in bad : n <= m

\* Lines 89-97.
ProductionExplanation(t) ==
  [is_feasible |-> FALSE,
   root_cause  |-> "PRODUCTION TOO LOW",
   details     |-> <<[text |-> "Total production", value |-> total_prod(t)],
                     \* 0.95 * total_demand with two decimals, in hundredths
                     [text |-> "Required for 95% demand",
                      value |-> 95 * total_demand(t)]>>,
   fix_options |-> <<[text |-> "Increase plant_week_capacity"],
                     [text |-> "Reduce demand values"],
                     [text |-> "Relax shortage limit (e.g., allow 20% instead of 5%)"]>>]

\* Lines 104-110, for the center j.
StorageExplanation(t, j) ==
  [is_feasible |-> FALSE,
   root_cause  |-> "STORAGE CAPACITY TOO SMALL",
   details     |-> <<[text |-> "Center: initial inventory, capacity",
                      center |-> j,
                      init_total |-> init_total(t, j),
                      cap |-> storage_cap(t)[j]]>>,
   fix_options |-> <<[text |-> "Increase center_storage_capacity for", center |-> j],
                     [text |-> "Reduce initial_inventory at that center"]>>]

\* Lines 113-122.
FallbackExplanation ==
  [is_feasible |-> FALSE,
   root_cause  |-> "DEMAND + SHORTAGE LIMIT TOO STRICT",
   details     |-> <<[text |-> "Model cannot satisfy 95% of demand for all centers/drugs/weeks simultaneously."]>>,
   fix_options |-> <<[text |-> "Relax shortage constraint from 5% to 20%"],
                     [text |-> "Increase production for early weeks"],
                     [text |-> "Increase initial_inventory"],
                     [text |-> "Reduce some peak demand values"]>>]

\* Variant: the storage scan runs before the production check.
explain_infeasibility_StorageFirst(t) ==
  IF FirstOffender(t) # 0
  THEN StorageExplanation(t, centers(t)[FirstOffender(t)])
  ELSE IF ProductionCheck(t) THEN ProductionExplanation(t)
       ELSE FallbackExplanation

explain_infeasibility(t) ==
  IF ProductionCheck(t) THEN ProductionExplanation(t)
  ELSE IF FirstOffender(t) # 0
       THEN StorageExplanation(t, centers(t)[FirstOffender(t)])
       ELSE FallbackExplanation

---------------------------------------------------------------------------
(* solve_optimization: building the model (lines 127-197).                 *)

\* Objective weights in tenths (alpha = 1.0, beta = 0.7, gamma = 4.0,
\* delta = 3.0) and the ultra-cold surcharge h_cold = 3.0.
alpha == 10
beta == 7
gamma == 40
delta == 30
h_cold == 3

\* The nested loops "for a in A for b in B for c in C" as one sequence of
\* triples, in iteration order.
Nest3(A, B, C) ==
  Flatten([a \in DOMAIN A |->
    Flatten([b \in DOMAIN B |->
      [c \in DOMAIN C |-> <<A[a], B[b], C[c]>>]])])

\* "for a in A for b in B" as one sequence of pairs.
Nest2(A, B) ==
  Flatten([a \in DOMAIN A |-> [b \in DOMAIN B |-> <<A[a], B[b]>>]])

\* "for i in plants for j in centers for k in drugs for t in weeks"
Nest4(A, B, C, D) ==
  Flatten([a \in DOMAIN A |->
    Flatten([b \in DOMAIN B |->
      Flatten([c \in DOMAIN C |->
        [d \in DOMAIN D |-> <<A[a], B[b], C[c], D[d]>>]])])])

\* The subscripts that raise KeyError while the objective is summed:
\* base_cost[(i, j)] and holding[(j, k)] are plain subscripts.
ObjectiveKeysPresent(t) ==
  /\ \A i \in Range(plants(t)) : \A j \in Range(centers(t)) :
       <<i, j>> \in DOMAIN base_cost(t)
  /\ \A j \in Range(centers(t)) : \A k \in Range(drugs(t)) :
       <<j, k>> \in DOMAIN holding(t)

\* demand[(j, k, t)] is a plain subscript in the balance loop.
DemandKeysPresent(t) ==
  \A j \in Range(centers(t)) : \A k \in Range(drugs(t)) :
    \A w \in Range(weeks(t)) : <<j, k, w>> \in DOMAIN demand(t)

\* y[j][k][t - 1] is a plain subscript of the variable dictionary, whose
\* keys are the weeks of the table.
PreviousWeekPresent(t) ==
  \A w \in Range(weeks(t)) : w # weeks(t)[1] => (w - 1) \in Range(weeks(t))

\* prod_cap[(i, t)] is a plain subscript in the production loop.
ProductionKeysPresent(t) ==
  \A i \in Range(plants(t)) : \A w \in Range(weeks(t)) :
    <<i, w>> \in DOMAIN prod_cap(t)

\* Building the model runs to the end iff no subscript raises.
BuildCompletes(t) ==
  /\ ObjectiveKeysPresent(t)
  /\ DemandKeysPresent(t)
  /\ PreviousWeekPresent(t)
  /\ ProductionKeysPresent(t)

\* Coefficients of the objective.  Every term of the sum is generated once
\* per (i, j, k, t), so the inventory, shortage and waste terms of a cell
\* are added once per plant.
ObjectiveOf(t) ==
  LET np == Len(plants(t)) IN
  [x |-> [v \in Range(Nest4(plants(t), centers(t), drugs(t), weeks(t))) |->
            alpha * (base_cost(t)[<<v[1], v[2]>>] + h_cold * cold_flag(t)[v[3]])],
   y |-> [v \in Range(Nest3(centers(t), drugs(t), weeks(t))) |->
            np * beta * holding(t)[<<v[1], v[2]>>]],
   s |-> [v \in Range(Nest3(centers(t), drugs(t), weeks(t))) |->
            np * gamma * penalty(t)[v[2]]],
   e |-> [v \in Range(Nest3(centers(t), drugs(t), weeks(t))) |->
            np * delta * waste_cost(t)[v[2]]]]

\* One balance equality per (j, k, t), in loop order.  For the first week
\* the right-hand side starts from init_inventory.get((j, k), 0), for any
\* other week from the variable y[j][k][t - 1].
BalanceOf(t) ==
  LET cells == Nest3(centers(t), drugs(t), weeks(t))
      inv   == init_inventory(t)
      dem   == demand(t)
      w1    == weeks(t)[1]
  IN [n \in DOMAIN cells |->
        LET c == cells[n] IN
        [center |-> c[1], drug |-> c[2], week |-> c[3],
         first  |-> (c[3] = w1),
         init   |-> IF c[3] = w1 THEN GetOrZero(inv, <<c[1], c[2]>>) ELSE 0,
         prev_week |-> IF c[3] = w1 THEN c[3] ELSE c[3] - 1,
         demand |-> dem[c]]]

\* lpSum(y[j][k][t] for k in drugs) <= storage_cap[j]
StorageOf(t) ==
  LET cells == Nest2(centers(t), weeks(t))
      cap   == storage_cap(t)
  IN [n \in DOMAIN cells |->
        [center |-> cells[n][1], week |-> cells[n][2], cap |-> cap[cells[n][1]]]]

\* lpSum(x[i][j][k][t] for j in centers for k in drugs) <= prod_cap[(i, t)]
ProductionOf(t) ==
  LET cells == Nest2(plants(t), weeks(t))
      cap   == prod_cap(t)
  IN [n \in DOMAIN cells |->
        [plant |-> cells[n][1], week |-> cells[n][2], cap |-> cap[cells[n]]]]

\* Variant: a shortage ceiling of 20% of the demand instead of 5%.
ShortageOfTwentyPercent(t) ==
  LET cells == Nest3(centers(t), drugs(t), weeks(t))
      dem   == demand(t)
  IN [n \in DOMAIN cells |->
        [center |-> cells[n][1], drug |-> cells[n][2], week |-> cells[n][3],
         demand |-> 4 * dem[cells[n]]]]

\* s[j][k][t] <= 0.05 * demand[(j, k, t)]
ShortageOf(t) ==
  LET cells == Nest3(centers(t), drugs(t), weeks(t))
      dem   == demand(t)
  IN [n \in DOMAIN cells |->
        [center |-> cells[n][1], drug |-> cells[n][2], week |-> cells[n][3],
         demand |-> dem[cells[n]]]]

\* The model handed to the solver.
ModelOf(t) ==
  [plants |-> plants(t), centers |-> centers(t),
   drugs |-> drugs(t), weeks |-> weeks(t),
   objective  |-> ObjectiveOf(t),
   balance    |-> BalanceOf(t),
   storage    |-> StorageOf(t),
   production |-> ProductionOf(t),
   shortage   |-> ShortageOf(t)]

NoModel == [plants |-> <<>>, centers |-> <<>>, drugs |-> <<>>, weeks |-> <<>>]

---------------------------------------------------------------------------
(* The five constraint families, read on an assignment in millionths.      *)

XKeys(m) == Range(Nest4(m.plants, m.centers, m.drugs, m.weeks))
YKeys(m) == Range(Nest3(m.centers, m.drugs, m.weeks))

\* pl.lpSum(x[i][j][k][t] for i in plants)
Inflow(m, a, j, k, w) ==
  SumSeq([n \in DOMAIN m.plants |-> a.x[<<m.plants[n], j, k, w>>]])

\* y[j][k][t] == init_inventory.get((j, k), 0) + inflow - demand + s - e
\* y[j][k][t] == y[j][k][t - 1]                + inflow - demand + s - e
BalanceHolds(m, a) ==
  \A n \in DOMAIN m.balance :
    LET c    == m.balance[n]
        key  == <<c.center, c.drug, c.week>>
        prev == IF c.first THEN c.init * Micro
                ELSE a.y[<<c.center, c.drug, c.prev_week>>]
    IN a.y[key] = prev + Inflow(m, a, c.center, c.drug, c.week)
                    - c.demand * Micro + a.s[key] - a.e[key]

StorageHolds(m, a) ==
  \A n \in DOMAIN m.storage :
    LET c == m.storage[n] IN
    SumSeq([d \in DOMAIN m.drugs |-> a.y[<<c.center, m.drugs[d], c.week>>]])
      <= c.cap * Micro

ProductionHolds(m, a) ==
  \A n \in DOMAIN m.production :
    LET c     == m.production[n]
        cells == Nest2(m.centers, m.drugs)
    IN SumSeq([d \in DOMAIN cells |->
                 a.x[<<c.plant, cells[d][1], cells[d][2], c.week>>]])
         <= c.cap * Micro

\* s <= 0.05 * demand, that is 20 * s <= demand
ShortageHolds(m, a) ==
  \A n \in DOMAIN m.shortage :
    LET c == m.shortage[n] IN
    20 * a.s[<<c.center, c.drug, c.week>>] <= c.demand * Micro

\* lowBound=0 on all four variable families
NonNegative(m, a) ==
  /\ \A v \in XKeys(m) : a.x[v] >= 0
  /\ \A v \in YKeys(m) : a.y[v] >= 0 /\ a.s[v] >= 0 /\ a.e[v] >= 0

Satisfies(m, a) ==
  /\ BalanceHolds(m, a)
  /\ StorageHolds(m, a)
  /\ ProductionHolds(m, a)
  /\ ShortageHolds(m, a)
  /\ NonNegative(m, a)

---------------------------------------------------------------------------
(* The solver (model.solve(PULP_CBC_CMD), lines 199-202).                  *)
(*                                                                         *)
(* Every model built within the bounds has a single drug or a single week, *)
(* so its constraints are those of a flow network with whole-number        *)
(* capacities: it has a solution iff it has one in whole units, and an     *)
(* optimal one among those.  The candidates are therefore the assignments  *)
(* in whole units; each variable's range is the bound its own constraint   *)
(* family puts on it, and waste is what the balance equality leaves.       *)

EmptyAssignment == [x |-> <<>>, y |-> <<>>, s |-> <<>>, e |-> <<>>]

CapOfPlant(m, i, w) ==
  LET n == CHOOSE z \in DOMAIN m.production :
             m.production[z].plant = i /\ m.production[z].week = w
  IN m.production[n].cap

CapOfCenter(m, j, w) ==
  LET n == CHOOSE z \in DOMAIN m.storage :
             m.storage[z].center = j /\ m.storage[z].week = w
  IN m.storage[n].cap

\* The demand in the shortage ceiling of the cell key.
CeilingOf(m, key) ==
  LET n == CHOOSE z \in DOMAIN m.shortage :
             <<m.shortage[z].center, m.shortage[z].drug, m.shortage[z].week>> = key
  IN m.shortage[n].demand

Max0(n) == IF n < 0 THEN 0 ELSE n

RECURSIVE Candidates(_, _, _)
\* The whole-unit assignments that extend part over the cells n, n+1, ...
\* of the balance loop and satisfy every balance equality with e >= 0.
Candidates(m, n, part) ==
  IF n > Len(m.balance) THEN {part}
  ELSE
    LET c    == m.balance[n]
        key  == <<c.center, c.drug, c.week>>
        prev == IF c.first THEN c.init
                ELSE part.y[<<c.center, c.drug, c.prev_week>>]
        caps == [i \in Range(m.plants) |-> Max0(CapOfPlant(m, i, c.week))]
        top  == CHOOSE z \in Range(caps) : \A i \in DOMAIN caps : caps[i] <= z
        ships == {f \in [Range(m.plants) -> 0 .. top] :
                    \A i \in DOMAIN caps : f[i] <= caps[i]}
        room == Max0(CapOfCenter(m, c.center, c.week))
        short == Max0(CeilingOf(m, key) \div 20)
    IN UNION {
         UNION {
           UNION {
             LET ev == prev + SumSet(xv, DOMAIN xv) - c.demand + sv - yv IN
             IF ev < 0 THEN {}
             ELSE Candidates(m, n + 1,
                    [x |-> part.x @@ [v \in {<<i, c.center, c.drug, c.week>> :
                                              i \in Range(m.plants)} |-> xv[v[1]]],
                     y |-> part.y @@ (key :> yv),
                     s |-> part.s @@ (key :> sv),
                     e |-> part.e @@ (key :> ev)])
             : yv \in 0 .. room}
           : sv \in 0 .. short}
         : xv \in ships}

\* A whole-unit assignment in millionths.
InMicro(w) ==
  [x |-> [v \in DOMAIN w.x |-> w.x[v] * Micro],
   y |-> [v \in DOMAIN w.y |-> w.y[v] * Micro],
   s |-> [v \in DOMAIN w.s |-> w.s[v] * Micro],
   e |-> [v \in DOMAIN w.e |-> w.e[v] * Micro]]

\* The solutions of the model among the candidates.
Solutions(m) ==
  {a \in {InMicro(w) : w \in Candidates(m, 1, EmptyAssignment)} : Satisfies(m, a)}

\* pl.value(model.objective) at a whole-unit assignment, in tenths.
ObjectiveValue(m, a) ==
  SumSet([v \in XKeys(m) |-> m.objective.x[v] * (a.x[v] \div Micro)], XKeys(m))
  + SumSet([v \in YKeys(m) |->
              m.objective.y[v] * (a.y[v] \div Micro)
              + m.objective.s[v] * (a.s[v] \div Micro)
              + m.objective.e[v] * (a.e[v] \div Micro)], YKeys(m))

\* LpMinimize: the solutions of least objective value.
Minimisers(m) ==
  LET sol   == Solutions(m)
      costs == {ObjectiveValue(m, a) : a \in sol}
      least == CHOOSE c \in costs : \A d \in costs : c <= d
  IN {a \in sol : ObjectiveValue(m, a) = least}

\* pl.LpStatus: 1 Optimal, -1 Infeasible, 0 Not Solved, -2 Unbounded,
\* -3 Undefined.  The last three are what the solver reports when it does
\* not reach a verdict on feasibility (failure, numerical trouble, a ray).
FailureStatuses == {"Not Solved", "Unbounded", "Undefined"}

---------------------------------------------------------------------------
(* solve_optimization: the result (lines 204-261).                         *)

\* round(val, 2) of a value in millionths, in hundredths.  Python rounds
\* the binary value correctly; a tie is exact only for a value such as
\* 0.125, and then goes to the even neighbour.
Round2(v) ==
  LET q == v \div 10000
      r == v % 10000
  IN IF r < 5000 THEN q
     ELSE IF r > 5000 THEN q + 1
     ELSE IF q % 2 = 0 THEN q ELSE q + 1

\* Variant: a value of exactly 1e-6 is reported too.
ReportedFromThreshold(v) == v >= 1

\* if val is not None and val > 1e-6
Reported(v) == v > 1

\* The shipments list: one entry per reported x[i][j][k][t], in loop order.
ShipmentsOf(m, a) ==
  LET keys == Nest4(m.plants, m.centers, m.drugs, m.weeks)
      all  == [n \in DOMAIN keys |->
                 [plant |-> keys[n][1], center |-> keys[n][2],
                  drug |-> keys[n][3], week |-> keys[n][4],
                  quantity |-> Round2(a.x[keys[n]]),
                  value |-> a.x[keys[n]]]]
      kept == SelectSeq(all, LAMBDA r : Reported(r.value))
  IN [n \in DOMAIN kept |->
        [plant |-> kept[n].plant, center |-> kept[n].center,
         drug |-> kept[n].drug, week |-> kept[n].week,
         quantity |-> kept[n].quantity]]

\* The inventory, shortages and waste lists: one entry per reported
\* variable of the family f, in loop order.
CellListOf(m, f) ==
  LET keys == Nest3(m.centers, m.drugs, m.weeks)
      all  == [n \in DOMAIN keys |->
                 [center |-> keys[n][1], drug |-> keys[n][2],
                  week |-> keys[n][3],
                  quantity |-> Round2(f[keys[n]]),
                  value |-> f[keys[n]]]]
      kept == SelectSeq(all, LAMBDA r : Reported(r.value))
  IN [n \in DOMAIN kept |->
        [center |-> kept[n].center, drug |-> kept[n].drug,
         week |-> kept[n].week, quantity |-> kept[n].quantity]]

\* None and a present value.
None == <<>>
Some(v) == <<v>>

\* The result dictionary before the branch on the status (lines 204-212).
BaseResult(st, cost) ==
  [status |-> st,
   is_feasible |-> (st = "Optimal"),
   optimal_cost |-> IF st = "Optimal" THEN Some(cost) ELSE None,
   shipments |-> <<>>, inventory |-> <<>>, shortages |-> <<>>, waste |-> <<>>]

\* if status == "Optimal": fill the four lists
OptimalResult(t, a, cost) ==
  LET m == [plants |-> plants(t), centers |-> centers(t),
            drugs |-> drugs(t), weeks |-> weeks(t)]
  IN [BaseResult("Optimal", cost) EXCEPT
        !.shipments = ShipmentsOf(m, a),
        !.inventory = CellListOf(m, a.y),
        !.shortages = CellListOf(m, a.s),
        !.waste     = CellListOf(m, a.e)]

\* else: result["explanation"] = explain_infeasibility(df)
OtherResult(t, st) ==
  BaseResult(st, 0) @@ [explanation |-> explain_infeasibility(t)]

NoResult == [status |-> ""]

---------------------------------------------------------------------------
(* Inputs.                                                                 *)

Plants  == {"P1", "P2"}
Centers == {"C1", "C2"}
Drugs   == {"D1", "D2"}
Weeks   == {1, 2, 3}

\* Rows given to solve_optimization.  A demand of 20 has a shortage
\* ceiling of 1; plant P1 has a capacity on either side of 95% of it and
\* plant P2 the one unit that closes the gap.
RowsOf(p, ws, caps) ==
  [plant : {p}, center : Centers, drug : Drugs, week : ws,
   base_transport_cost : {2}, needs_ultra_cold : {1}, holding_cost : {1},
   shortage_penalty : {8}, waste_cost : {10},
   demand : {20}, plant_week_capacity : caps,
   center_storage_capacity : {1}, initial_inventory : {0, 2}]

Rows == RowsOf("P1", Weeks, {18, 20}) \cup RowsOf("P2", {1, 2}, {1})

\* Centers and drugs are only ever compared for equality, so the first row
\* names the first of each.
FirstRows == {r \in Rows : r.center = "C1" /\ r.drug = "D1"}

\* Rows given to explain_infeasibility alone.  A capacity of 19 is 95% of
\* a demand of 20; a storage capacity of 2 equals an initial inventory of 2.
DiagRows ==
  [plant : {"P1"}, center : Centers, drug : Drugs, week : {1, 2},
   base_transport_cost : {2}, needs_ultra_cold : {1}, holding_cost : {1},
   shortage_penalty : {8}, waste_cost : {10},
   demand : {0, 20}, plant_week_capacity : {19},
   center_storage_capacity : {1, 2}, initial_inventory : {0, 2}]

\* The tables of at most n rows drawn from R (the empty one included).
Tables(R, n) == UNION {[1 .. k -> R] : k \in 0 .. n}

\* The tables of 1 to n rows whose first row is one of F.
TablesFrom(F, R, n) == {<<f>> \o t : f \in F, t \in Tables(R, n - 1)}

-----------------------------------------------------------------------
(* solve_optimization as a state machine.                                  *)

Init ==
  /\ df \in TablesFrom(FirstRows, Rows, MaxRows)
  /\ pc = "start"
  /\ exception = ""
  /\ lp = NoModel
  /\ status = ""
  /\ assignment = EmptyAssignment
  /\ objective_value = 0
  /\ result = NoResult

\* Lines 127-197 run to the end: the model is built.
Build ==
  /\ pc = "start"
  /\ BuildCompletes(df)
  /\ lp' = ModelOf(df)
  /\ pc' = "built"
  /\ UNCHANGED <<df, exception, status, assignment, objective_value, result>>

\* A subscript of lines 157-197 raises KeyError: solve_optimization ends
\* with the exception and returns no result.
BuildRaises ==
  /\ pc = "start"
  /\ ~BuildCompletes(df)
  /\ exception' = "KeyError"
  /\ pc' = "raised"
  /\ UNCHANGED <<df, lp, status, assignment, objective_value, result>>

\* The solver finds an optimum.
SolveOptimal ==
  /\ pc = "built"
  /\ \E a \in Minimisers(lp) :
       /\ assignment' = a
       /\ objective_value' = ObjectiveValue(lp, a)
  /\ status' = "Optimal"
  /\ pc' = "solved"
  /\ UNCHANGED <<df, exception, lp, result>>

\* The solver proves that the model has no solution.
SolveInfeasible ==
  /\ pc = "built"
  /\ Solutions(lp) = {}
  /\ status' = "Infeasible"
  /\ pc' = "solved"
  /\ UNCHANGED <<df, exception, lp, assignment, objective_value, result>>

\* The solver ends without a verdict.
SolveFails ==
  /\ pc = "built"
  /\ status' \in FailureStatuses
  /\ pc' = "solved"
  /\ UNCHANGED <<df, exception, lp, assignment, objective_value, result>>

\* Lines 204-257 on status Optimal.
ReturnOptimal ==
  /\ pc = "solved"
  /\ status = "Optimal"
  /\ result' = OptimalResult(df, assignment, objective_value)
  /\ pc' = "done"
  /\ UNCHANGED <<df, exception, lp, status, assignment, objective_value>>

\* Lines 204-212 and 258-259 on any other status.
ReturnOther ==
  /\ pc = "solved"
  /\ status # "Optimal"
  /\ result' = OtherResult(df, status)
  /\ pc' = "done"
  /\ UNCHANGED <<df, exception, lp, status, assignment, objective_value>>

Next ==
  \/ Build
  \/ BuildRaises
  \/ SolveOptimal
  \/ SolveInfeasible
  \/ SolveFails
  \/ ReturnOptimal
  \/ ReturnOther

Spec == Init /\ [][Next]_vars

---------------------------------------------------------------------------
(* explain_infeasibility on its own, over a wider range of parameters.     *)

InitDiag ==
  /\ df \in TablesFrom(DiagRows, DiagRows, MaxDiagRows)
  /\ pc = "diagnose"
  /\ exception = ""
  /\ lp = NoModel
  /\ status = "Infeasible"
  /\ assignment = EmptyAssignment
  /\ objective_value = 0
  /\ result = NoResult

Diagnose ==
  /\ pc = "diagnose"
  /\ result' = explain_infeasibility(df)
  /\ pc' = "explained"
  /\ UNCHANGED <<df, exception, lp, status, assignment, objective_value>>

NextDiag == Diagnose

SpecDiag == InitDiag /\ [][NextDiag]_vars

---------------------------------------------------------------------------
(* The extraction loops on their own, over values as a solver reports      *)
(* them: within its tolerance of the whole units, and in between.          *)

ExtractRow(c, w) ==
  [plant |-> "P1", center |-> c, drug |-> "D1", week |-> w,
   base_transport_cost |-> 2, needs_ultra_cold |-> 1, holding_cost |-> 1,
   shortage_penalty |-> 8, waste_cost |-> 10,
   demand |-> 20, plant_week_capacity |-> 20,
   center_storage_capacity |-> 1, initial_inventory |-> 0]

\* Two centers met in the order C2, C1; two weeks met in the order 2, 1.
TwoCellTables ==
  {<<ExtractRow("C2", 1), ExtractRow("C1", 1)>>,
   <<ExtractRow("C1", 2), ExtractRow("C1", 1)>>}

OneCellTables == {<<ExtractRow("C1", 1)>>}

\* In millionths: -1e-6, 0, 1e-6, 2e-6, 0.015001 and 0.125.
SolverValues == {-1, 0, 1, 2, 15001, 125000}
FewSolverValues == {1, 2, 15001}

AssignmentsOver(t, V) ==
  LET m == ModelOf(t) IN
  [x : [XKeys(m) -> V], y : [YKeys(m) -> V],
   s : [YKeys(m) -> V], e : [YKeys(m) -> V]]

InitExtract ==
  /\ \/ df \in OneCellTables /\ assignment \in AssignmentsOver(df, SolverValues)
     \/ df \in TwoCellTables /\ assignment \in AssignmentsOver(df, FewSolverValues)
  /\ pc = "solved"
  /\ exception = ""
  /\ lp = ModelOf(df)
  /\ status = "Optimal"
  /\ objective_value = 0
  /\ result = NoResult

NextExtract == ReturnOptimal

SpecExtract == InitExtract /\ [][NextExtract]_vars

---------------------------------------------------------------------------
(* Properties.                                                             *)

Returned == pc = "done"
HasExplanation == "explanation" \in DOMAIN result

\* Total capacity over (plant, week) below 95% of total demand over
\* (center, drug, week).
CapacityBelow95(t) == 20 * total_prod(t) < 19 * total_demand(t)

\* The centers whose first-week initial inventory, summed over the drugs,
\* exceeds their storage capacity.
Offenders(t) ==
  {j \in Range(centers(t)) : init_total(t, j) > storage_cap(t)[j]}

\* The centers a diagnosis names, in its details or its fix options.
NamedIn(ex) ==
  {ex.details[n].center :
     n \in {z \in DOMAIN ex.details : "center" \in DOMAIN ex.details[z]}}
  \cup
  {ex.fix_options[n].center :
     n \in {z \in DOMAIN ex.fix_options : "center" \in DOMAIN ex.fix_options[z]}}

\* The row in which a center is first met.
FirstRowOf(t, j) ==
  CHOOSE n \in DOMAIN t :
    t[n].center = j /\ \A z \in DOMAIN t : t[z].center = j => n <= z

(* C1: on a solver status other than Optimal and Infeasible (Unbounded,    *)
(* Not Solved, Undefined) the result of solve_optimization carries no      *)
(* explanation produced by the infeasibility diagnoser.                    *)
C1_DiagnoserOnlyOnInfeasible ==
  (Returned /\ result.status \in FailureStatuses) => ~HasExplanation

(* C2: whenever total capacity is below 95% of total demand and some       *)
(* center's initial inventory exceeds its storage capacity, the diagnoser  *)
(* answers PRODUCTION TOO LOW, not STORAGE CAPACITY TOO SMALL.             *)
C2_ProductionCheckFirst ==
  (pc = "explained" /\ CapacityBelow95(df) /\ Offenders(df) # {})
    => result.root_cause = "PRODUCTION TOO LOW"

C2_Witness ==
  /\ pc = "explained"
  /\ CapacityBelow95(df)
  /\ Offenders(df) # {}
  /\ result.root_cause = "PRODUCTION TOO LOW"

(* C3: whenever production capacity suffices for demand and a center's     *)
(* first-week initial inventory exceeds its storage capacity, the result   *)
(* of solve_optimization carries an explanation with root cause STORAGE    *)
(* CAPACITY TOO SMALL that names such a center.                            *)
C3_StorageScenario ==
  (Returned /\ ~CapacityBelow95(df) /\ Offenders(df) # {})
    => /\ HasExplanation
       /\ result.explanation.root_cause = "STORAGE CAPACITY TOO SMALL"
       /\ NamedIn(result.explanation) \subseteq Offenders(df)
       /\ NamedIn(result.explanation) # {}

(* C4, as stated: when capacity is at least 95% of demand and no center    *)
(* offends, the root cause is exactly "DEMAND/SHORTAGE-LIMIT TOO STRICT".  *)
C4_FallbackAsStated ==
  (pc = "explained" /\ ~CapacityBelow95(df) /\ Offenders(df) = {})
    => result.root_cause = "DEMAND/SHORTAGE-LIMIT TOO STRICT"

(* C4, amended: when capacity is at least 95% of demand and no center      *)
(* offends, the root cause is exactly "DEMAND + SHORTAGE LIMIT TOO         *)
(* STRICT", no center is named and the details are the generic sentence.   *)
C4_Fallback ==
  (pc = "explained" /\ ~CapacityBelow95(df) /\ Offenders(df) = {})
    => /\ result.root_cause = "DEMAND + SHORTAGE LIMIT TOO STRICT"
       /\ NamedIn(result) = {}
       /\ Len(result.details) = 1

\* Capacity exactly 95% of demand, and an initial inventory equal to the
\* storage capacity: both checks are at their edge and neither fires.
C4_Witness ==
  /\ pc = "explained"
  /\ 20 * total_prod(df) = 19 * total_demand(df)
  /\ \E j \in Range(centers(df)) :
       init_total(df, j) = storage_cap(df)[j] /\ init_total(df, j) > 0
  /\ Offenders(df) = {}
  /\ result.root_cause = "DEMAND + SHORTAGE LIMIT TOO STRICT"

(* C5: when the production check does not fire and centers offend, the     *)
(* diagnoser reports exactly one center: the offending center met first    *)
(* in the rows; no other center appears in details or fix_options.         *)
C5_FirstOffenderWins ==
  (pc = "explained" /\ ~CapacityBelow95(df) /\ Offenders(df) # {})
    => /\ result.root_cause = "STORAGE CAPACITY TOO SMALL"
       /\ Len(result.details) = 1
       /\ \E j \in Offenders(df) :
            /\ \A k \in Offenders(df) : FirstRowOf(df, j) <= FirstRowOf(df, k)
            /\ result.details[1].center = j
            /\ result.details[1].init_total = init_total(df, j)
            /\ result.details[1].cap = storage_cap(df)[j]
            /\ NamedIn(result) = {j}

\* Two offending centers, the one reported being met first although it is
\* not the first by name.
C5_Witness ==
  /\ pc = "explained"
  /\ ~CapacityBelow95(df)
  /\ Cardinality(Offenders(df)) = 2
  /\ df[1].center = "C2"
  /\ NamedIn(result) = {"C2"}


---------------------------------------------------------------------------
(* Vocabulary of the properties of solve_optimization, read off the rows.  *)

\* The rows of a (plant, week) pair, and of a (center, drug, week) cell.
RowsOfPlantWeek(t, i, w) == {n \in DOMAIN t : t[n].plant = i /\ t[n].week = w}
RowsOfCell(t, j, k, w) ==
  {n \in DOMAIN t : t[n].center = j /\ t[n].drug = k /\ t[n].week = w}

PlantSet(t)  == {t[n].plant : n \in DOMAIN t}
CenterSet(t) == {t[n].center : n \in DOMAIN t}
DrugSet(t)   == {t[n].drug : n \in DOMAIN t}
WeekSet(t)   == {t[n].week : n \in DOMAIN t}

LastOf(S) == CHOOSE n \in S : \A z \in S : z <= n
FirstWeek(t) == CHOOSE w \in WeekSet(t) : \A z \in WeekSet(t) : w <= z

\* Some plant and week of the table never occur in one row.
PlantWeekAbsent(t) ==
  \E i \in PlantSet(t) : \E w \in WeekSet(t) : RowsOfPlantWeek(t, i, w) = {}

\* Every combination of values that occur in the table occurs in a row.
AllCombinationsPresent(t) ==
  /\ ~PlantWeekAbsent(t)
  /\ \A j \in CenterSet(t) : \A k \in DrugSet(t) : \A w \in WeekSet(t) :
       RowsOfCell(t, j, k, w) # {}
  /\ \A i \in PlantSet(t) : \A j \in CenterSet(t) :
       \E n \in DOMAIN t : t[n].plant = i /\ t[n].center = j

\* The week of the table that precedes w in the sorted week sequence.
PrecedingWeek(t, w) ==
  CHOOSE p \in WeekSet(t) :
    p < w /\ \A z \in WeekSet(t) : z < w => z <= p

\* The weeks of the table are consecutive integers.
WeeksConsecutive(t) ==
  \A w \in WeekSet(t) : w # FirstWeek(t) => (w - 1) \in WeekSet(t)

\* Initial inventory of (j, k): that of its last first-week row, else 0.
InitialOf(t, j, k) ==
  LET R == RowsOfCell(t, j, k, FirstWeek(t))
  IN IF R = {} THEN 0 ELSE t[LastOf(R)].initial_inventory

\* Sum of the initial inventories over the (center, drug) pairs.
TotalInitial(t) ==
  LET pairs == CenterSet(t) \X DrugSet(t)
  IN SumSet([q \in pairs |-> InitialOf(t, q[1], q[2])], pairs)

Built == pc \in {"built", "solved", "done"}
Solved == pc \in {"solved", "done"}

(* C6: when some plant and week of the input never co-occur in a row,      *)
(* solve_optimization takes the capacity as 0 and still builds and solves  *)
(* the model; it does not end in an error.                                 *)
C6_MissingKeysDefaultToZero ==
  (pc # "start" /\ PlantWeekAbsent(df)) => (pc # "raised" /\ exception = "")

(* C7: in every result, is_feasible is true iff the status is Optimal,     *)
(* optimal_cost is present iff the status is Optimal, the explanation is   *)
(* present iff the status is Infeasible (and then it is not feasible and   *)
(* has a root cause), and off Optimal the four lists are empty.            *)
C7_ResultShape ==
  Returned =>
    /\ result.is_feasible = (result.status = "Optimal")
    /\ (result.optimal_cost # None) = (result.status = "Optimal")
    /\ HasExplanation = (result.status = "Infeasible")
    /\ HasExplanation =>
         /\ result.explanation.is_feasible = FALSE
         /\ result.explanation.root_cause # ""
    /\ result.status # "Optimal" =>
         /\ result.shipments = <<>>
         /\ result.inventory = <<>>
         /\ result.shortages = <<>>
         /\ result.waste = <<>>

---------------------------------------------------------------------------
(* Vocabulary of the extraction.                                           *)

\* Position of v in the sequence q.
Pos(q, v) == CHOOSE n \in DOMAIN q : q[n] = v

RECURSIVE LexLess(_, _)
\* Strict lexicographic order on sequences of integers of equal length.
LexLess(a, b) ==
  /\ a # <<>>
  /\ \/ Head(a) < Head(b)
     \/ Head(a) = Head(b) /\ LexLess(Tail(a), Tail(b))

\* The entries of the shipments list and of a cell list: the variable each
\* one stands for, its place in the nested iteration, and its quantity.
ShipmentEntries ==
  [n \in DOMAIN result.shipments |->
     LET r == result.shipments[n] IN
     [key   |-> <<r.plant, r.center, r.drug, r.week>>,
      place |-> <<Pos(plants(df), r.plant), Pos(centers(df), r.center),
                  Pos(drugs(df), r.drug), Pos(weeks(df), r.week)>>,
      quantity |-> r.quantity]]

CellEntries(list) ==
  [n \in DOMAIN list |->
     LET r == list[n] IN
     [key   |-> <<r.center, r.drug, r.week>>,
      place |-> <<Pos(centers(df), r.center), Pos(drugs(df), r.drug),
                  Pos(weeks(df), r.week)>>,
      quantity |-> r.quantity]]

\* The entries are those of the variables (keys) whose value exceeds 1e-6,
\* each once, in iteration order, with the value rounded to hundredths.
Extracted(entries, keys, value) ==
  /\ \A k \in keys :
       Cardinality({n \in DOMAIN entries : entries[n].key = k})
         = IF value[k] > 1 THEN 1 ELSE 0
  /\ \A n \in DOMAIN entries : entries[n].key \in keys
  /\ \A n \in DOMAIN entries : \A m \in DOMAIN entries :
       n < m => LexLess(entries[n].place, entries[m].place)
  /\ \A n \in DOMAIN entries :
       LET q == entries[n].quantity
           v == value[entries[n].key]
       IN /\ q >= 0
          /\ q * 10000 - v <= 5000
          /\ v - q * 10000 <= 5000

(* C8: on an Optimal outcome each of the four lists holds an entry for a   *)
(* variable iff its value is above 1e-6, each entry once, in the order of  *)
(* the nested iteration over the index sets, with the value rounded to two *)
(* decimals as quantity, which is never negative.                          *)
C8_ExtractionFilter ==
  (Returned /\ status = "Optimal") =>
    LET cells == CenterSet(df) \X DrugSet(df) \X WeekSet(df)
        ships == PlantSet(df) \X CenterSet(df) \X DrugSet(df) \X WeekSet(df)
    IN /\ Extracted(ShipmentEntries, ships, assignment.x)
       /\ Extracted(CellEntries(result.inventory), cells, assignment.y)
       /\ Extracted(CellEntries(result.shortages), cells, assignment.s)
       /\ Extracted(CellEntries(result.waste), cells, assignment.e)

\* Two centers met in the order C2, C1: the shipment to C1 is exactly 1e-6
\* and is left out, the one to C2 is 2e-6 and is listed as 0.00, the waste
\* of 0.015001 is listed as 0.02 for C2 before C1.
C8_Witness ==
  /\ Returned /\ status = "Optimal"
  /\ centers(df) = <<"C2", "C1">>
  /\ assignment.x[<<"P1", "C1", "D1", 1>>] = 1
  /\ assignment.x[<<"P1", "C2", "D1", 1>>] = 2
  /\ assignment.e[<<"C1", "D1", 1>>] = 15001
  /\ assignment.e[<<"C2", "D1", 1>>] = 15001
  /\ Len(result.shipments) = 1
  /\ result.shipments[1].quantity = 0
  /\ Len(result.waste) = 2
  /\ result.waste[1].center = "C2"
  /\ result.waste[1].quantity = 2

---------------------------------------------------------------------------
(* The inventory recurrence and the production check.                      *)

\* The balance equalities of the built model that stand for the cell.
BalancesOf(j, k, w) ==
  {n \in DOMAIN lp.balance :
     lp.balance[n].center = j /\ lp.balance[n].drug = k /\ lp.balance[n].week = w}

\* The built model has exactly one balance equality per (center, drug,
\* week); that of the first week starts from the initial inventory of the
\* first-week rows, that of a later week from the Inventory variable of
\* the week pointed at by previous.
BalanceShape(previous) ==
  /\ Len(lp.balance)
       = Cardinality(CenterSet(df)) * Cardinality(DrugSet(df)) * Cardinality(WeekSet(df))
  /\ \A j \in CenterSet(df) : \A k \in DrugSet(df) : \A w \in WeekSet(df) :
       /\ Cardinality(BalancesOf(j, k, w)) = 1
       /\ \A n \in BalancesOf(j, k, w) :
            /\ lp.balance[n].demand = df[LastOf(RowsOfCell(df, j, k, w))].demand
            /\ IF w = FirstWeek(df)
               THEN /\ lp.balance[n].first
                    /\ lp.balance[n].init = InitialOf(df, j, k)
               ELSE /\ ~lp.balance[n].first
                    /\ lp.balance[n].prev_week = previous[w]

\* The assignment the solver accepted satisfies, cell by cell,
\* Inventory[t] = Inventory[previous[t]] + shipments in - Demand[t]
\*                + Shortage[t] - Waste[t],
\* with the initial inventory in place of Inventory[previous[t]] in the
\* first week.
RecurrenceHolds(previous) ==
  \A j \in CenterSet(df) : \A k \in DrugSet(df) : \A w \in WeekSet(df) :
    LET before == IF w = FirstWeek(df) THEN InitialOf(df, j, k) * Micro
                  ELSE assignment.y[<<j, k, previous[w]>>]
        inflow == SumSet([i \in PlantSet(df) |-> assignment.x[<<i, j, k, w>>]],
                         PlantSet(df))
        dem    == df[LastOf(RowsOfCell(df, j, k, w))].demand * Micro
    IN assignment.y[<<j, k, w>>]
         = before + inflow - dem + assignment.s[<<j, k, w>>] - assignment.e[<<j, k, w>>]

\* previous, read as the preceding week of the sequence and as t - 1.
PrecedingInSequence ==
  [w \in WeekSet(df) \ {FirstWeek(df)} |-> PrecedingWeek(df, w)]
WeekBefore == [w \in WeekSet(df) \ {FirstWeek(df)} |-> w - 1]

(* C9, as stated: for the sorted week sequence of the input (every         *)
(* combination of its index values being present in a row), the model is   *)
(* built with one balance equality per (center, drug, week), every later   *)
(* week using the Inventory variable of the preceding week of the          *)
(* sequence.                                                               *)
C9_RecurrenceAsStated ==
  (pc # "start" /\ AllCombinationsPresent(df)) =>
    /\ Built
    /\ BalanceShape(PrecedingInSequence)

(* C9, amended: whenever the model is built it has one balance equality    *)
(* per (center, drug, week); the first week starts from the initial        *)
(* inventory of the first-week rows (0 if absent) and a later week t from  *)
(* the Inventory variable of week t - 1, which is then the preceding week  *)
(* of the sequence; an accepted assignment satisfies the recurrence;       *)
(* initial_inventory of later-week rows never enters; and when some later  *)
(* week t has no week t - 1 in the input, no model is built: the build     *)
(* ends in a KeyError.                                                     *)
C9_Recurrence ==
  /\ Built =>
       /\ WeeksConsecutive(df)
       /\ WeekBefore = PrecedingInSequence
       /\ BalanceShape(WeekBefore)
  /\ (Solved /\ status = "Optimal") => RecurrenceHolds(WeekBefore)
  /\ (pc # "start" /\ ~WeeksConsecutive(df)) => (pc = "raised" /\ exception = "KeyError")

\* An optimum over two weeks whose second-week row carries an initial
\* inventory of 2 that the first-week row does not.
C9_Witness ==
  /\ Returned /\ status = "Optimal"
  /\ WeekSet(df) = {1, 2}
  /\ \E n \in DOMAIN df :
       /\ df[n].week = 2
       /\ df[n].initial_inventory = 2
       /\ InitialOf(df, df[n].center, df[n].drug) = 0
  /\ \A c \in Range(lp.balance) : c.init = 0

\* The sum of the plant_week_capacity over the (plant, week) pairs and of
\* the demand over the (center, drug, week) cells, last row of each.
TotalCapacity(t) ==
  LET pairs == {q \in PlantSet(t) \X WeekSet(t) : RowsOfPlantWeek(t, q[1], q[2]) # {}}
  IN SumSet([q \in pairs |->
               t[LastOf(RowsOfPlantWeek(t, q[1], q[2]))].plant_week_capacity], pairs)
TotalDemand(t) ==
  LET cells == {q \in CenterSet(t) \X DrugSet(t) \X WeekSet(t) :
                  RowsOfCell(t, q[1], q[2], q[3]) # {}}
  IN SumSet([q \in cells |->
               t[LastOf(RowsOfCell(t, q[1], q[2], q[3]))].demand], cells)

(* C10, as stated: whenever total capacity is below 95% of total demand,   *)
(* no assignment satisfies the five constraint families of the built       *)
(* model, positive initial inventory included: the solver never accepts    *)
(* one.                                                                    *)
C10_NecessaryAsStated ==
  (Solved /\ 20 * TotalCapacity(df) < 19 * TotalDemand(df)) =>
    ~(status = "Optimal" /\ Satisfies(lp, assignment))

(* C10, amended: whenever total capacity plus total first-week initial     *)
(* inventory is below 95% of total demand, no assignment satisfies the     *)
(* five constraint families of the built model: the solver never reports   *)
(* an optimum.                                                             *)
C10_NecessaryWithInventory ==
  20 * (TotalCapacity(df) + TotalInitial(df)) < 19 * TotalDemand(df) =>
    /\ pc = "built" => Solutions(lp) = {}
    /\ Solved => status # "Optimal"

\* Capacity 18 and initial inventory 2 against two demands of 20: the
\* model is infeasible although some inventory is on hand.
C10_Witness ==
  /\ Solved /\ status = "Infeasible"
  /\ TotalInitial(df) > 0
  /\ 20 * (TotalCapacity(df) + TotalInitial(df)) < 19 * TotalDemand(df)
====
